---- MODULE Spec2Model ----
(***************************************************************************)
(* Model of the meshy glb downloader (main.py): the link resolver          *)
(* resolve_to_glb_url with its page scan and URL normalizer, the streaming *)
(* downloader download_file, and the Tk application whose download button  *)
(* starts one worker thread per click.                                     *)
(*                                                                         *)
(* Python strings are TLA+ strings; a character is a string of length 1.   *)
(***************************************************************************)
EXTENDS Integers, Sequences, FiniteSets, TLC

(***************************************************************************)
(* Python str primitives used by main.py                                   *)
(***************************************************************************)

\* the element of a set of one element.  A step applied to the result of another is
\* written  Only({G(y) : y \in {F(x)}}) : F(x) is a value before G works on it
Only(S) == CHOOSE x \in S : TRUE

\* s[i] (1-based); "" outside the string
Ch(s, i) == IF i >= 1 /\ i <= Len(s) THEN SubSeq(s, i, i) ELSE ""

\* s[i:i+n] clipped to the string (1-based i)
Sub(s, i, n) ==
    LET lo == IF i < 1 THEN 1 ELSE i
        hi == IF i + n - 1 > Len(s) THEN Len(s) ELSE i + n - 1
    IN IF hi < lo THEN "" ELSE SubSeq(s, lo, hi)

\* s[i:] (1-based i)
From(s, i) == Sub(s, i, Len(s))

SetMin(S) == CHOOSE x \in S : \A y \in S : x <= y

\* the least index of a set of indexes (all >= 1), 0 when it is empty
MinOrZero(S) == IF S = {} THEN 0 ELSE SetMin(S)

\* the greatest index of a set of indexes (all >= 1), 0 when it is empty
MaxOrZero(S) == IF S = {} THEN 0 ELSE CHOOSE x \in S : \A y \in S : x >= y

\* str.find(sub, start): the least index >= from where sub occurs, 0 when none
Find(s, sub, from) ==
    MinOrZero({i \in from..(Len(s) - Len(sub) + 1) : Sub(s, i, Len(sub)) = sub})

\* str.rfind(sub): the greatest index where sub occurs, 0 when none
RFind(s, sub) ==
    MaxOrZero({i \in 1..(Len(s) - Len(sub) + 1) : Sub(s, i, Len(sub)) = sub})

Contains(s, sub) == Find(s, sub, 1) > 0

StartsWith(s, pre) == Sub(s, 1, Len(pre)) = pre

EndsWith(s, suf) == Len(s) >= Len(suf) /\ From(s, Len(s) - Len(suf) + 1) = suf

\* a code point outside the modelled alphabet
OtherChar == "\f"

\* the printable ASCII characters, code points 32..126 in order; the grave
\* accent (96), which a TLA+ string cannot hold, is outside the alphabet
Ascii ==
    " !\"#$%&'()*+,-./0123456789:;<=>?@ABCDEFGHIJKLMNOPQRSTUVWXYZ[\\]^_\fabcdefghijklmnopqrstuvwxyz{|}~"

\* ord() of each printable ASCII character
OrdMap == [c \in {SubSeq(Ascii, i, i) : i \in 1..Len(Ascii)} \ {OtherChar} |->
             CHOOSE i \in 32..126 : SubSeq(Ascii, i - 31, i - 31) = c]

\* ord(c) for a printable ASCII character, 0 for any other
Ord(c) == IF c \in DOMAIN OrdMap THEN OrdMap[c] ELSE 0

\* chr(n)
Chr(n) ==
    IF n >= 32 /\ n <= 126 THEN Ch(Ascii, n - 31)
    ELSE IF n = 9 THEN "\t"
    ELSE IF n = 10 THEN "\n"
    ELSE IF n = 13 THEN "\r"
    ELSE OtherChar

\* the regex class \s and the characters str.strip() removes
IsSpace(c) == c \in {" ", "\t", "\n", "\r"}

IsDigit(c) == Ord(c) >= 48 /\ Ord(c) <= 57

IsAlpha(c) == (Ord(c) >= 65 /\ Ord(c) <= 90) \/ (Ord(c) >= 97 /\ Ord(c) <= 122)

\* [0-9a-fA-F]
IsHex(c) == IsDigit(c) \/ (Ord(c) >= 65 /\ Ord(c) <= 70) \/ (Ord(c) >= 97 /\ Ord(c) <= 102)

\* str.lower() of each upper-case letter
LowerMap == [c \in {SubSeq(Ascii, i, i) : i \in 34..59} |->
               SubSeq(Ascii, OrdMap[c] + 1, OrdMap[c] + 1)]

LowerCh(c) == IF c \in DOMAIN LowerMap THEN LowerMap[c] ELSE c

RECURSIVE LowerRange(_, _, _)
\* s[lo - 1:hi] in lower case, one half after the other
LowerRange(s, lo, hi) ==
    IF lo > hi THEN ""
    ELSE IF lo = hi THEN LowerCh(Ch(s, lo))
    ELSE LowerRange(s, lo, (lo + hi) \div 2) \o LowerRange(s, (lo + hi) \div 2 + 1, hi)

\* str.lower()
Lower(s) == LowerRange(s, 1, Len(s))

\* s[i - 1:] for i >= 1, "" for i = 0
FromOrEmpty(s, i) == IF i = 0 THEN "" ELSE From(s, i)

\* str.lstrip()
LStrip(s) == FromOrEmpty(s, MinOrZero({i \in 1..Len(s) : ~IsSpace(Ch(s, i))}))

\* str.rstrip()
RStrip(s) == Sub(s, 1, MaxOrZero({i \in 1..Len(s) : ~IsSpace(Ch(s, i))}))

\* str.strip()
Strip(s) == Only({LStrip(r) : r \in {RStrip(s)}})

RECURSIVE ReplaceFrom(_, _, _, _)
RECURSIVE ReplaceAt(_, _, _, _, _)
\* s[i - 1:] with old replaced, j the index of the next occurrence of old
ReplaceAt(s, old, new, i, j) ==
    IF j = 0 THEN From(s, i)
    ELSE Sub(s, i, j - i) \o new \o ReplaceFrom(s, old, new, j + Len(old))

ReplaceFrom(s, old, new, i) == ReplaceAt(s, old, new, i, Find(s, old, i))

\* str.replace(old, new): left to right, non-overlapping (old is not empty)
Replace(s, old, new) == ReplaceFrom(s, old, new, 1)

\* the value of one hexadecimal digit
HexDigit(c) == IF IsDigit(c) THEN Ord(c) - 48 ELSE Ord(LowerCh(c)) - 87

RECURSIVE HexVal(_)
\* int(h, 16)
HexVal(h) ==
    IF h = "" THEN 0
    ELSE 16 * HexVal(Sub(h, 1, Len(h) - 1)) + HexDigit(Ch(h, Len(h)))

RECURSIVE DecVal(_)
\* int(d)
DecVal(d) ==
    IF d = "" THEN 0
    ELSE 10 * DecVal(Sub(d, 1, Len(d) - 1)) + (Ord(Ch(d, Len(d))) - 48)

RECURSIVE RemoveFrom(_, _, _)
RECURSIVE RemoveAt(_, _, _, _)
\* s[i - 1:] without the characters of drop, j the index of the next one
RemoveAt(s, drop, i, j) ==
    IF j = 0 THEN From(s, i) ELSE Sub(s, i, j - i) \o RemoveFrom(s, drop, j + 1)

RemoveFrom(s, drop, i) ==
    RemoveAt(s, drop, i, MinOrZero({k \in i..Len(s) : Ch(s, k) \in drop}))

(***************************************************************************)
(* urllib.parse as main.py uses it: urlparse (lines 30, 37) and urljoin    *)
(* (lines 135, 148).  Each step of a parse is an operator of its own, the  *)
(* text still to parse being its argument.                                 *)
(***************************************************************************)

\* urllib.parse.scheme_chars
IsSchemeChar(c) == IsAlpha(c) \/ IsDigit(c) \/ c \in {"+", "-", "."}

\* urllib.parse.uses_params, uses_relative and uses_netloc hold "", http and https
\* (of the schemes that occur here, ftp too)
UsesParams == {"", "http", "https", "ftp"}

UsesRelative == {"", "http", "https", "ftp"}

UsesNetloc == {"", "http", "https", "ftp"}

\* _splitnetloc: the first index >= from of one of "/", "?", "#", or Len(s) + 1
NetlocEnd(s, from) ==
    IF {i \in from..Len(s) : Ch(s, i) \in {"/", "?", "#"}} = {} THEN Len(s) + 1
    ELSE SetMin({i \in from..Len(s) : Ch(s, i) \in {"/", "?", "#"}})

\* _splitparams: the index of the first ";" of the last path segment (sl is the
\* index of the last "/"), 0 when it has none
ParamsIndex(path, sl) == IF sl > 0 THEN Find(path, ";", sl) ELSE Find(path, ";", 1)

\* the end of urlparse: the params are split off for the schemes that use them;
\* invalid when urlsplit raises ValueError (one square bracket and not the other)
ParseParamsAt(scheme, netloc, path, query, fragment, sc) ==
    [scheme |-> scheme,
     netloc |-> netloc,
     path |-> IF scheme \in UsesParams /\ sc > 0 THEN Sub(path, 1, sc - 1) ELSE path,
     params |-> IF scheme \in UsesParams /\ sc > 0 THEN From(path, sc + 1) ELSE "",
     query |-> query,
     fragment |-> fragment,
     invalid |-> Contains(netloc, "[") # Contains(netloc, "]")]

ParseParams(scheme, netloc, path, query, fragment) ==
    ParseParamsAt(scheme, netloc, path, query, fragment, ParamsIndex(path, RFind(path, "/")))

\* url.split("?", 1), q the index of the first "?"
ParseQueryAt(scheme, netloc, u, fragment, q) ==
    IF q > 0 THEN ParseParams(scheme, netloc, Sub(u, 1, q - 1), From(u, q + 1), fragment)
    ELSE ParseParams(scheme, netloc, u, "", fragment)

\* url.split("#", 1), h the index of the first "#"
ParseFragmentAt(scheme, netloc, u, h) ==
    IF h > 0
    THEN ParseQueryAt(scheme, netloc, Sub(u, 1, h - 1), From(u, h + 1),
                      Find(Sub(u, 1, h - 1), "?", 1))
    ELSE ParseQueryAt(scheme, netloc, u, "", Find(u, "?", 1))

\* the netloc of a text that starts with "//", e its end
ParseNetlocAt(scheme, u, e) ==
    ParseFragmentAt(scheme, Sub(u, 3, e - 3), From(u, e), Find(From(u, e), "#", 1))

ParseNetloc(scheme, u) ==
    IF Sub(u, 1, 2) = "//" THEN ParseNetlocAt(scheme, u, NetlocEnd(u, 3))
    ELSE ParseFragmentAt(scheme, "", u, Find(u, "#", 1))

\* the scheme: the text before the first ":" (at index i), when it starts with a
\* letter and holds scheme characters only
ParseSchemeAt(u, default, i) ==
    IF i > 1 /\ IsAlpha(Ch(u, 1)) /\ \A k \in 1..(i - 1) : IsSchemeChar(Ch(u, k))
    THEN ParseNetloc(Lower(Sub(u, 1, i - 1)), From(u, i + 1))
    ELSE ParseNetloc(default, u)

\* urlsplit's cleaning of the text: leading spaces, then tabs and line breaks
CleanUrl(url) == RemoveFrom(LStrip(url), {"\t", "\r", "\n"}, 1)

ParseClean(u, default) == ParseSchemeAt(u, default, Find(u, ":", 1))

\* urlparse(url, scheme): the six components, and invalid
urlparse(url, default) == Only({ParseClean(u, default) : u \in {CleanUrl(url)}})

\* urlunsplit's last steps
AddQueryFragment(u, query, fragment) ==
    (IF query # "" THEN u \o "?" \o query ELSE u)
    \o (IF fragment # "" THEN "#" \o fragment ELSE "")

AddNetloc(scheme, netloc, u) ==
    (IF scheme # "" THEN scheme \o ":" ELSE "")
    \o (IF netloc # "" \/ (scheme # "" /\ scheme \in UsesNetloc /\ Sub(u, 1, 2) # "//")
        THEN "//" \o netloc \o (IF u # "" /\ Ch(u, 1) # "/" THEN "/" ELSE "")
        ELSE "")
    \o u

\* urlunparse
urlunparse(scheme, netloc, path, params, query, fragment) ==
    AddQueryFragment(AddNetloc(scheme, netloc,
                               IF params # "" THEN path \o ";" \o params ELSE path),
                     query, fragment)

RECURSIVE SplitFrom(_, _)
RECURSIVE SplitAt(_, _, _)
\* the segments of s[i - 1:], j the index of its first "/"
SplitAt(s, i, j) ==
    IF j = 0 THEN <<From(s, i)>>
    ELSE <<Sub(s, i, j - i)>> \o SplitFrom(s, j + 1)

\* str.split("/") of s[i - 1:]
SplitFrom(s, i) == SplitAt(s, i, Find(s, "/", i))

RECURSIVE JoinSlash(_)
\* "/".join(segs)
JoinSlash(segs) ==
    IF Len(segs) = 0 THEN ""
    ELSE IF Len(segs) = 1 THEN segs[1]
    ELSE segs[1] \o "/" \o JoinSlash(Tail(segs))

\* base_parts: the segments of the base path without a last segment that is not empty
BaseParts(parts) ==
    IF parts[Len(parts)] # "" THEN SubSeq(parts, 1, Len(parts) - 1) ELSE parts

\* segments[1:-1] = filter(None, segments[1:-1])
DropEmptyInner(segs) ==
    IF Len(segs) <= 2 THEN segs
    ELSE <<segs[1]>>
         \o SelectSeq(SubSeq(segs, 2, Len(segs) - 1), LAMBDA x : x # "")
         \o <<segs[Len(segs)]>>

\* the segments urljoin resolves
MergeSegments(bpath, path) ==
    IF Ch(path, 1) = "/" THEN SplitFrom(path, 1)
    ELSE DropEmptyInner(BaseParts(SplitFrom(bpath, 1)) \o SplitFrom(path, 1))

RECURSIVE ResolveDots(_, _)
\* the loop of urljoin that removes "." and ".." segments
ResolveDots(segs, acc) ==
    IF Len(segs) = 0 THEN acc
    ELSE IF Head(segs) = ".."
    THEN ResolveDots(Tail(segs), IF Len(acc) = 0 THEN acc ELSE SubSeq(acc, 1, Len(acc) - 1))
    ELSE IF Head(segs) = "." THEN ResolveDots(Tail(segs), acc)
    ELSE ResolveDots(Tail(segs), Append(acc, Head(segs)))

\* resolved_path of the segments
ResolvedPath(segments) ==
    IF segments[Len(segments)] \in {".", ".."}
    THEN Append(ResolveDots(segments, <<>>), "")
    ELSE ResolveDots(segments, <<>>)

\* "/".join(resolved_path) or "/"
PathOrRoot(joined) == IF joined = "" THEN "/" ELSE joined

\* urljoin once base (b) and url (u) are parsed
JoinParsed(b, u, url) ==
    IF u.scheme # b.scheme \/ u.scheme \notin UsesRelative THEN url
    ELSE IF u.scheme \in UsesNetloc /\ u.netloc # ""
    THEN urlunparse(u.scheme, u.netloc, u.path, u.params, u.query, u.fragment)
    ELSE IF u.path = "" /\ u.params = ""
    THEN urlunparse(u.scheme, b.netloc, b.path, b.params,
                    IF u.query = "" THEN b.query ELSE u.query, u.fragment)
    ELSE urlunparse(u.scheme, b.netloc,
                    Only({PathOrRoot(JoinSlash(ResolvedPath(m))) :
                            m \in {MergeSegments(b.path, u.path)}}),
                    u.params, u.query, u.fragment)

JoinParsedBase(b, url) == Only({JoinParsed(b, u, url) : u \in {urlparse(url, b.scheme)}})

\* the URL urljoin(base, url) returns
urljoin(base, url) ==
    IF base = "" THEN url
    ELSE IF url = "" THEN base
    ELSE Only({JoinParsedBase(b, url) : b \in {urlparse(base, "")}})

\* urljoin raises ValueError when one of its two urlparse calls does
JoinRaises(base, url) ==
    /\ base # "" /\ url # ""
    /\ \E b \in {urlparse(base, "")} : b.invalid \/ urlparse(url, b.scheme).invalid

\* os.path.basename (posixpath): the text after the last "/"
basename(path) == From(path, RFind(path, "/") + 1)

(***************************************************************************)
(* main.py, lines 28-52: the helpers of the resolver                       *)
(***************************************************************************)

\* the extension the resolver looks for
GlbExt == ".glb"

\* lines 28-33; an exception of urlparse gives False
_is_url(s) ==
    \E u \in {urlparse(s, "")} : ~u.invalid /\ u.scheme \in {"http", "https"} /\ u.netloc # ""

\* a variant of line 38 that has no default name
NameKept(name) == name

\* line 38
NameOrDefault(name) == IF name # "" THEN name ELSE "model.glb"

\* lines 39-43
WithExtension(name) ==
    IF ~EndsWith(Lower(name), GlbExt) /\ ~Contains(name, ".")
    THEN name \o GlbExt
    ELSE name

\* _guess_filename_from_url(url); GuessRaises when its urlparse raises
_guess_filename_from_url(url) ==
    Only({WithExtension(NameOrDefault(basename(u.path))) : u \in {urlparse(url, "")}})

GuessRaises(url) == urlparse(url, "").invalid

\* n characters from index i, all hexadecimal digits
HexRun(s, i, n) == i + n - 1 <= Len(s) /\ \A k \in i..(i + n - 1) : IsHex(Ch(s, k))

\* the pattern v2-[0-9a-f]{8}(?:-[0-9a-f]{4}){3}-[0-9a-f]{12}, ignoring case, at index i
ModelIdAt(s, i) ==
    /\ Lower(Sub(s, i, 3)) = "v2-"
    /\ HexRun(s, i + 3, 8)
    /\ Ch(s, i + 11) = "-" /\ HexRun(s, i + 12, 4)
    /\ Ch(s, i + 16) = "-" /\ HexRun(s, i + 17, 4)
    /\ Ch(s, i + 21) = "-" /\ HexRun(s, i + 22, 4)
    /\ Ch(s, i + 26) = "-" /\ HexRun(s, i + 27, 12)

\* the text of the 39 characters of a model id at index i, "" for i = 0
ModelIdText(text, i) == IF i = 0 THEN "" ELSE Sub(text, i, 39)

\* _extract_model_id(text): the first match, "" for None
_extract_model_id(text) ==
    ModelIdText(text, MinOrZero({i \in 1..Len(text) : ModelIdAt(text, i)}))

(***************************************************************************)
(* main.py, lines 83-118: _normalize_found_url                             *)
(***************************************************************************)

RECURSIVE SubUnicodeFrom(_, _, _)
RECURSIVE SubUnicodeAt(_, _, _, _)
\* s[i - 1:] after the substitution, j the index of the next match
SubUnicodeAt(s, prefix, i, j) ==
    IF j = 0 THEN From(s, i)
    ELSE Sub(s, i, j - i) \o Chr(HexVal(Sub(s, j + Len(prefix), 4)))
         \o SubUnicodeFrom(s, prefix, j + Len(prefix) + 4)

\* re.sub(prefix + "([0-9a-fA-F]{4})", _u_repl, s) from index i
SubUnicodeFrom(s, prefix, i) ==
    SubUnicodeAt(s, prefix, i,
                 MinOrZero({k \in i..Len(s) : /\ Sub(s, k, Len(prefix)) = prefix
                                              /\ HexRun(s, k + Len(prefix), 4)}))

\* the named character references the pages of this model use, of the html5
\* table of html.unescape; those without ";" also match as a prefix of a name
EntityNames == {"amp;", "amp", "lt;", "lt", "gt;", "gt", "quot;", "quot",
                "apos;", "sol;", "num;", "quest;", "period;", "colon;"}

EntityChar(name) ==
    CASE name \in {"amp;", "amp"} -> "&"
      [] name \in {"lt;", "lt"} -> "<"
      [] name \in {"gt;", "gt"} -> ">"
      [] name \in {"quot;", "quot"} -> "\""
      [] name = "apos;" -> "'"
      [] name = "sol;" -> "/"
      [] name = "num;" -> "#"
      [] name = "quest;" -> "?"
      [] name = "period;" -> "."
      [] name = "colon;" -> ":"

\* the character classes of the patterns: "dec" [0-9], "hex" [0-9a-fA-F],
\* "name" [^\t\n\f <&#;], "url" [^\s"'], "attr" [^"']
InClass(c, class) ==
    /\ Len(c) = 1
    /\ CASE class = "dec" -> IsDigit(c)
         [] class = "hex" -> IsHex(c)
         [] class = "name" -> c \notin {"\t", "\n", "\f", " ", "<", "&", "#", ";"}
         [] class = "url" -> ~IsSpace(c) /\ c \notin {"\"", "'"}
         [] class = "attr" -> c \notin {"\"", "'"}

\* the last index of the run of characters from i that are in the class, i - 1 when none
RunEnd(s, i, class) ==
    IF \A j \in i..Len(s) : InClass(Ch(s, j), class) THEN Len(s)
    ELSE SetMin({j \in i..Len(s) : ~InClass(Ch(s, j), class)}) - 1

\* 1 when a ";" is at index i, else 0
SemiAt(s, i) == IF Ch(s, i) = ";" THEN 1 ELSE 0

\* &#...; at index i with digits from d0 to d1: <<replacement, next index>>
NumericRun(s, i, isHex, d0, d1) ==
    IF d1 >= d0
    THEN <<Chr(IF isHex THEN HexVal(Sub(s, d0, d1 - d0 + 1))
               ELSE DecVal(Sub(s, d0, d1 - d0 + 1))),
           d1 + 1 + SemiAt(s, d1 + 1)>>
    ELSE <<"&", i + 1>>

\* a name that is no entity: its longest prefix (of x characters) that is one
NamedPrefix(i, name, x) ==
    IF x > 0 THEN <<EntityChar(Sub(name, 1, x)), i + 1 + x>> ELSE <<"&", i + 1>>

NamedRef(i, name) ==
    IF name \in EntityNames THEN <<EntityChar(name), i + 1 + Len(name)>>
    ELSE NamedPrefix(i, name,
                     MaxOrZero({x \in 2..(Len(name) - 1) : Sub(name, 1, x) \in EntityNames}))

\* &name at index i, the name ending at n1 (at most 32 characters), with its ";"
NamedRun(s, i, n1) ==
    IF n1 <= i THEN <<"&", i + 1>>
    ELSE NamedRef(i, Sub(s, i + 1, n1 - i + SemiAt(s, n1 + 1)))

NameEnd(i, n1) == IF n1 - i > 32 THEN i + 32 ELSE n1

\* the replacement of the reference matched at the "&" at index i as <<text, next index>>,
\* <<"&", i + 1>> when no reference starts there
UnescapeAt(s, i) ==
    IF Ch(s, i + 1) = "#"
    THEN IF Ch(s, i + 2) \in {"x", "X"}
         THEN NumericRun(s, i, TRUE, i + 3, RunEnd(s, i + 3, "hex"))
         ELSE NumericRun(s, i, FALSE, i + 2, RunEnd(s, i + 2, "dec"))
    ELSE NamedRun(s, i, NameEnd(i, RunEnd(s, i + 1, "name")))

RECURSIVE UnescapeFrom(_, _)
RECURSIVE UnescapeNext(_, _)
RECURSIVE UnescapeAmp(_, _, _)
UnescapeNext(s, r) == r[1] \o UnescapeFrom(s, r[2])

\* s[i - 1:] unescaped, j the index of the next "&"
UnescapeAmp(s, i, j) ==
    IF j = 0 THEN From(s, i) ELSE Sub(s, i, j - i) \o UnescapeNext(s, UnescapeAt(s, j))

UnescapeFrom(s, i) == UnescapeAmp(s, i, Find(s, "&", i))

\* html.unescape(s)
HtmlUnescape(s) == IF Contains(s, "&") THEN UnescapeFrom(s, 1) ELSE s

\* lines 87-89: a single trailing backslash is removed
DropBackslash(s) ==
    IF EndsWith(s, "\\") /\ ~EndsWith(s, "\\\\") THEN Sub(s, 1, Len(s) - 1) ELSE s

\* lines 92-94
UnescapeJson(s) ==
    Only({Replace(c, "\\\\", "\\") :
            c \in {Replace(b, "\\\"", "\"") : b \in {Replace(s, "\\/", "/")}}})

\* lines 102-105
UnescapeUnicode(s) ==
    Only({SubUnicodeFrom(b, "\\u", 1) : b \in {SubUnicodeFrom(s, "\\\\u", 1)}})

\* lines 83-118, one step after the other
_normalize_found_url(raw) ==
    Only({Strip(e) :
            e \in {HtmlUnescape(d) :
                     d \in {UnescapeUnicode(c) :
                              c \in {UnescapeJson(b) :
                                       b \in {DropBackslash(a) : a \in {Strip(raw)}}}}}})

(***************************************************************************)
(* main.py, lines 120-154: the three patterns of scan_page_for_glb.  The   *)
(* patterns ignore case: they are matched on the lower-cased page (lh) and *)
(* the match is taken from the page.                                       *)
(***************************************************************************)

\* the match with the optional  (?:\?<class>+)  after the ".glb" that ends at e
GlbQueryEnd(lh, e, class, q) == IF Ch(lh, e + 1) = "?" /\ q >= e + 2 THEN q ELSE e

\* k is the least number of characters before a ".glb", 0 when there is none
GlbEndAt(lh, b, class, k) ==
    IF k = 0 THEN 0
    ELSE GlbQueryEnd(lh, b + k + 3, class, RunEnd(lh, b + k + 5, class))

\* r is the end of the run of class characters from b
GlbEndIn(lh, b, class, r) ==
    GlbEndAt(lh, b, class, MinOrZero({k \in 1..(r - b + 1) : Sub(lh, b + k, 4) = GlbExt}))

\* the end of the match of  <class>+?\.glb(?:\?<class>+)?  whose first character
\* is at index b; 0 when it does not match there
GlbEnd(lh, b, class) == GlbEndIn(lh, b, class, RunEnd(lh, b, class))

\* index of the first character after  https?://  at index i, 0 when it is not there
AfterScheme(lh, i) ==
    IF Sub(lh, i, 7) = "http://" THEN i + 7
    ELSE IF Sub(lh, i, 8) = "https://" THEN i + 8
    ELSE 0

AbsoluteAt(html, lh, i) ==
    IF i = 0 THEN "" ELSE Sub(html, i, GlbEnd(lh, AfterScheme(lh, i), "url") - i + 1)

AbsoluteIn(html, lh) ==
    AbsoluteAt(html, lh,
               MinOrZero({i \in 1..Len(lh) : /\ AfterScheme(lh, i) > 0
                                             /\ GlbEnd(lh, AfterScheme(lh, i), "url") > 0}))

\* re.findall(r"https?://[^\s\"']+?\.glb(?:\?[^\s\"']+)?", html, IGNORECASE)[0], "" when empty
FindAbsolute(html) == Only({AbsoluteIn(html, lh) : lh \in {Lower(html)}})

\* the index where the first match of the root-absolute pattern starts, 0 when none
RootRelativeStart(lh) ==
    MinOrZero({i \in 1..Len(lh) : Ch(lh, i) = "/" /\ GlbEnd(lh, i + 1, "url") > 0})

RootRelativeAt(html, lh, i) ==
    IF i = 0 THEN "" ELSE Sub(html, i, GlbEnd(lh, i + 1, "url") - i + 1)

RootRelativeIn(html, lh) == RootRelativeAt(html, lh, RootRelativeStart(lh))

\* re.findall(r"(/[^\s\"']+?\.glb(?:\?[^\s\"']+)?)", html, IGNORECASE)[0], "" when empty
FindRootRelative(html) == Only({RootRelativeIn(html, lh) : lh \in {Lower(html)}})

\* the text between the quotes matches  [^"']+?\.glb(?:\?[^"']+)?  as a whole
IsGlbValue(run) ==
    \E k \in 1..(Len(run) - 4) :
        /\ Sub(run, k + 1, 4) = GlbExt
        /\ \/ k + 4 = Len(run)
           \/ Ch(run, k + 5) = "?" /\ Len(run) >= k + 6

\* the value from index b to r, r the index before the next quote
AttrValueIn(html, lh, b, r) ==
    IF /\ AfterScheme(lh, b) = 0
       /\ Ch(lh, r + 1) \in {"\"", "'"}
       /\ IsGlbValue(Sub(lh, b, r - b + 1))
    THEN Sub(html, b, r - b + 1) ELSE ""

\* p is the index after href or src
AttrValueAfter(html, lh, p) ==
    IF p > 0 /\ Ch(lh, p) = "=" /\ Ch(lh, p + 1) \in {"\"", "'"}
    THEN AttrValueIn(html, lh, p + 2, RunEnd(lh, p + 2, "attr"))
    ELSE ""

\* the group of  (?:href|src)=["'](?!https?://)([^"']+?\.glb(?:\?[^"']+)?)["']
\* matched at index i, "" when the pattern does not match there
AttrValueAt(html, lh, i) ==
    AttrValueAfter(html, lh, IF Sub(lh, i, 4) = "href" THEN i + 4
                             ELSE IF Sub(lh, i, 3) = "src" THEN i + 3
                             ELSE 0)

AttrValueFirst(html, lh, i) == IF i = 0 THEN "" ELSE AttrValueAt(html, lh, i)

AttributeIn(html, lh) ==
    AttrValueFirst(html, lh, MinOrZero({i \in 1..Len(lh) : AttrValueAt(html, lh, i) # ""}))

\* re.findall of the href/src pattern [0], "" when empty
FindAttribute(html) == Only({AttributeIn(html, lh) : lh \in {Lower(html)}})

\* what scan_page_for_glb returns: the value ("" for None), whether it logged a
\* "normalized url" line, the pattern that matched, whether urljoin raised ValueError
ScanNormalized(via, found, norm) ==
    [url |-> norm, via |-> via, raises |-> FALSE, normalized |-> norm # found]

\* lines 123-126, 136-139, 149-152
ScanFound(via, found) ==
    Only({ScanNormalized(via, found, norm) : norm \in {_normalize_found_url(found)}})

\* lines 135 and 148
ScanJoin(final_url, via, ref) ==
    IF JoinRaises(final_url, ref)
    THEN [url |-> "", via |-> via, raises |-> TRUE, normalized |-> FALSE]
    ELSE Only({ScanFound(via, found) : found \in {urljoin(final_url, ref)}})

ScanVia(final_url, abs, rel, rel2) ==
    IF abs # "" THEN ScanFound("absolute", abs)
    ELSE IF rel # "" THEN ScanJoin(final_url, "root", rel)
    ELSE IF rel2 # "" THEN ScanJoin(final_url, "attribute", rel2)
    ELSE [url |-> "", via |-> "none", raises |-> FALSE, normalized |-> FALSE]

ScanPage(final_url, html) ==
    Only({ScanVia(final_url, abs, rel, rel2) :
            abs \in {FindAbsolute(html)},
            rel \in {FindRootRelative(html)},
            rel2 \in {FindAttribute(html)}})

(***************************************************************************)
(* State.  thr[w] holds the locals of the thread in slot w: the call of    *)
(* resolve_to_glb_url and of download_file it is in, and what it has done  *)
(* since it was started.  queue is Tk's queue of after(0, ...) callbacks,  *)
(* which is also where log, set_status and set_progress put their work;    *)
(* the other variables are the widgets' state, owned by the foreground.    *)
(***************************************************************************)
VARIABLES thr, queue, btn_download, status_var, progress_var, log_text, clicks

vars == <<thr, queue, btn_download, status_var, progress_var, log_text, clicks>>

\* the number of thread slots: threads that can be alive at once
MaxThreads == 2

Threads == 1..MaxThreads

FIGURINIFY_URL == "https://andytwoods.github.io/Figurinify/"

\* no Resolved value
NoResult == [glb_url |-> "", filename |-> ""]

\* a thread slot with no thread in it
IdleThread ==
    [pc |-> "idle", app |-> FALSE,
     user_input |-> "", s |-> "", strategy |-> 0, fetches |-> <<>>,
     resolved |-> NoResult, err |-> "",
     total |-> 0, got |-> 0, nchunks |-> 0, chunk |-> -1, gets |-> 0,
     cb_count |-> 0, cb_last |-> -1, cb_prev |-> -1, cb_in_stream |-> FALSE,
     opened |-> <<>>, last_status |-> ""]

\* self.after(0, ...) callbacks
LogEntry(line) == [cb |-> "log", arg |-> line]

StatusEntry(msg) == [cb |-> "status", arg |-> msg]

ProgressEntry(pct) == [cb |-> "progress", arg |-> pct]

EnableEntry == [cb |-> "enable", arg |-> "normal"]

\* a step of a thread: its new locals and the callbacks it queued, in order
Step(w, r) ==
    /\ thr' = [thr EXCEPT ![w] = r.t]
    /\ queue' = queue \o r.posts

(***************************************************************************)
(* main.py, lines 55-175: resolve_to_glb_url.  A call is at "fetching"     *)
(* while requests.get is in flight, and ends "returned" or "raised".       *)
(***************************************************************************)

\* a fetch that failed: requests.get raised, or raise_for_status did
FetchFailed == [ok |-> FALSE, url |-> "", text |-> ""]

\* x[:q - 1] for the index q of the first "?", x when q = 0
UpTo(x, q) == IF q > 0 THEN Sub(x, 1, q - 1) ELSE x

\* s.lower().split("?")[0]
BeforeQuery(x) == UpTo(x, Find(x, "?", 1))

\* a variant of line 65 that takes no input for a direct link
NeverDirect(s) == FALSE

\* line 65
IsDirect(s) == _is_url(s) /\ \E l \in {Lower(s)} : EndsWith(BeforeQuery(l), GlbExt)

\* line 167
ModelPage(model_id) == "https://www.meshy.ai/3d-models/" \o model_id

\* lines 70-78: the log line, then requests.get(page_url) is sent
StartFetch(t, strategy, page_url) ==
    [t |-> [t EXCEPT !.pc = "fetching", !.strategy = strategy,
                     !.fetches = Append(@, [url |-> page_url, outcome |-> "pending",
                                            final |-> "", html |-> ""])],
     posts |-> <<LogEntry("fetching page")>>]

\* lines 172-175
RaiseNotFound(t) == [t |-> [t EXCEPT !.pc = "raised", !.err = "not found"], posts |-> <<>>]

\* lines 164-168 and 172
Strategy3With(t, model_id) ==
    IF model_id # "" THEN StartFetch(t, 3, ModelPage(model_id)) ELSE RaiseNotFound(t)

\* lines 162-175: strategy 3, up to its fetch
TryStrategy3(t) == Only({Strategy3With(t, model_id) : model_id \in {_extract_model_id(t.s)}})

\* lines 64-66 and 156-158, s the stripped input
ResolveStripped(t, s) ==
    IF IsDirect(s)
    THEN [t |-> [t EXCEPT !.pc = "returned",
                          !.resolved = [glb_url |-> s,
                                        filename |-> _guess_filename_from_url(s)]],
          posts |-> <<>>]
    ELSE IF _is_url(s) THEN StartFetch(t, 2, s)
    ELSE TryStrategy3(t)

\* lines 62-66 and 156-158: the call, up to its return or its first fetch
ResolveStart(t, user_input) ==
    Only({ResolveStripped([t EXCEPT !.user_input = user_input, !.s = s], s) :
            s \in {Strip(user_input)}})

\* the last fetch of t with its outcome filled in
Fetched(t, outcome, resp) ==
    [t EXCEPT !.fetches[Len(t.fetches)] =
        [@ EXCEPT !.outcome = outcome, !.final = resp.url, !.html = resp.text]]

\* a variant of the fetch in which a failure counts as a page without a link
FailureTriesNext(t) ==
    IF t.strategy = 2 THEN TryStrategy3(Fetched(t, "failed", FetchFailed))
    ELSE RaiseNotFound(Fetched(t, "failed", FetchFailed))

\* lines 71-79: requests.get or raise_for_status raises, and nothing catches it
\* before the caller of resolve_to_glb_url
OnFetchFailure(t) ==
    [t |-> [Fetched(t, "failed", FetchFailed) EXCEPT !.pc = "raised", !.err = "fetch error"],
     posts |-> <<>>]

\* lines 159-160 and 169-170: if glb: return Resolved(...)
ReturnFound(t, resp, scan) ==
    IF GuessRaises(scan.url)
    THEN [t |-> [Fetched(t, "found", resp) EXCEPT !.pc = "raised", !.err = "invalid url"],
          posts |-> IF scan.normalized THEN <<LogEntry("normalized url")>> ELSE <<>>]
    ELSE [t |-> [Fetched(t, "found", resp) EXCEPT
                    !.pc = "returned",
                    !.resolved = [glb_url |-> scan.url,
                                  filename |-> _guess_filename_from_url(scan.url)]],
          posts |-> IF scan.normalized THEN <<LogEntry("normalized url")>> ELSE <<>>]

\* a variant of lines 156-175 in which strategy 3 is for inputs that are no URL
UrlInputStops(t, resp, scan) ==
    IF scan.raises
    THEN [t |-> [Fetched(t, "raised", resp) EXCEPT !.pc = "raised", !.err = "invalid url"],
          posts |-> <<>>]
    ELSE IF scan.url # "" THEN ReturnFound(t, resp, scan)
    ELSE RaiseNotFound(Fetched(t, "nolink", resp))

\* lines 80-175 once the page is scanned
OnScanned(t, resp, scan) ==
    IF scan.raises
    THEN [t |-> [Fetched(t, "raised", resp) EXCEPT !.pc = "raised", !.err = "invalid url"],
          posts |-> <<>>]
    ELSE IF scan.url # "" THEN ReturnFound(t, resp, scan)
    ELSE IF t.strategy = 2 THEN TryStrategy3(Fetched(t, "nolink", resp))
    ELSE RaiseNotFound(Fetched(t, "nolink", resp))

\* lines 71-175 after the response of the fetch in flight has arrived
OnFetchResponse(t, resp) ==
    IF ~resp.ok THEN OnFetchFailure(t)
    ELSE Only({OnScanned(t, resp, scan) : scan \in {ScanPage(resp.url, resp.text)}})

\* resolve_to_glb_url(user_input, log) is called by the thread in slot w
Resolve(w, user_input) ==
    /\ thr[w].pc = "resolve"
    /\ Step(w, ResolveStart(thr[w], user_input))
    /\ UNCHANGED <<btn_download, status_var, progress_var, log_text, clicks>>

\* the response of the page fetch in flight arrives, or the fetch fails
FetchDone(w, resp) ==
    /\ thr[w].pc = "fetching"
    /\ Step(w, OnFetchResponse(thr[w], resp))
    /\ UNCHANGED <<btn_download, status_var, progress_var, log_text, clicks>>

(***************************************************************************)
(* main.py, lines 178-201: download_file.  A call is at "requesting" while *)
(* requests.get is in flight and at "streaming" inside the loop over       *)
(* iter_content; it ends "saved" or "raised".  What the call passes to     *)
(* progress_cb is kept in the thread: the number of calls, the last value  *)
(* and the one before, and whether the last call came from the loop.       *)
(***************************************************************************)

\* line 187: chunk_size
ChunkSize == 1024 * 512

\* line 198
MB == 1024 * 1024

\* the chunks of a stream in one call of download_file (empty ones too)
MaxChunks == 201

\* the chunks of a stream in a download started by the application
AppMaxChunks == 2

\* line 194: int(got * 100 / total), the whole multiples of total taken out of got
\* before the product
Pct(got, total) == 100 * (got \div total) + ((got % total) * 100) \div total

\* a variant of line 198 without the modulus and the cap
PulseUncapped(got) == got \div MB

\* line 198: min(99, (got // (1024 * 1024)) % 100)
Pulse(got) == IF (got \div MB) % 100 < 99 THEN (got \div MB) % 100 ELSE 99

\* progress_cb(pct): the worker's progress_cb is set_progress (lines 346-347, 283-284)
ProgressCb(t, pct, in_stream) ==
    [t |-> [t EXCEPT !.cb_count = @ + 1, !.cb_prev = t.cb_last, !.cb_last = pct,
                     !.cb_in_stream = in_stream],
     posts |-> IF t.app THEN <<ProgressEntry(pct)>> ELSE <<>>]

\* line 181: requests.get(url, stream=True) is sent
DownloadCall(w) ==
    /\ thr[w].pc = "download"
    /\ Step(w, [t |-> [thr[w] EXCEPT !.pc = "requesting", !.gets = @ + 1], posts |-> <<>>])
    /\ UNCHANGED <<btn_download, status_var, progress_var, log_text, clicks>>

\* lines 181-184: the response arrives; requests.get or raise_for_status raises,
\* or total is read from the content-length header
OnDownloadResponse(t, resp) ==
    IF resp.ok
    THEN [t |-> [t EXCEPT !.pc = "streaming", !.total = resp.total, !.got = 0], posts |-> <<>>]
    ELSE [t |-> [t EXCEPT !.pc = "raised", !.err = "download error"], posts |-> <<>>]

DownloadResponse(w, resp) ==
    /\ thr[w].pc = "requesting"
    /\ Step(w, OnDownloadResponse(thr[w], resp))
    /\ UNCHANGED <<btn_download, status_var, progress_var, log_text, clicks>>

\* lines 187-198: one chunk of iter_content
OnChunk(t, size) ==
    IF size = 0
    THEN [t |-> [t EXCEPT !.nchunks = @ + 1, !.chunk = 0], posts |-> <<>>]
    ELSE ProgressCb([t EXCEPT !.nchunks = @ + 1, !.chunk = size, !.got = @ + size],
                    IF t.total > 0 THEN Pct(t.got + size, t.total) ELSE Pulse(t.got + size),
                    TRUE)

Chunk(w, size) ==
    /\ thr[w].pc = "streaming"
    /\ thr[w].nchunks < (IF thr[w].app THEN AppMaxChunks ELSE MaxChunks)
    /\ Step(w, OnChunk(thr[w], size))
    /\ UNCHANGED <<btn_download, status_var, progress_var, log_text, clicks>>

\* iter_content raises (the connection breaks): the error leaves download_file
StreamError(w) ==
    /\ thr[w].pc = "streaming"
    /\ Step(w, [t |-> [thr[w] EXCEPT !.pc = "raised", !.err = "download error"],
                posts |-> <<>>])
    /\ UNCHANGED <<btn_download, status_var, progress_var, log_text, clicks>>

\* lines 200-201 once progress_cb(100) is called
OnStreamEnd(r) == [t |-> [r.t EXCEPT !.pc = "saved"], posts |-> r.posts \o <<LogEntry("saved")>>]

\* the stream ends: lines 200-201
StreamEnd(w) ==
    /\ thr[w].pc = "streaming"
    /\ Step(w, OnStreamEnd(ProgressCb(thr[w], 100, FALSE)))
    /\ UNCHANGED <<btn_download, status_var, progress_var, log_text, clicks>>

(***************************************************************************)
(* main.py, lines 203-368: TkDownloaderApp.  The foreground runs one       *)
(* callback at a time: a click on the download button (on_download) or the *)
(* next entry of the after-queue.  The worker thread that on_download      *)
(* starts runs resolve_to_glb_url, download_file and the code around them. *)
(***************************************************************************)

\* clicks on the download button in one run
MaxClicks == 2

\* a variant of line 322 that leaves the button as it is
ButtonLeftEnabled == "normal"

\* line 322
ButtonWhileWorking == "disabled"

StatusFailed == "failed"

\* a slot with no live thread in it
Free(w) == thr[w].pc \in {"idle", "finished"}

\* the slot the next thread gets
FreeSlot == SetMin({w \in Threads : Free(w)})

\* a click on the download button with input in the entry: on_download.  Lines
\* 311-314: nothing to resolve; lines 317-324 and 367-368: the ui is reset, the
\* button disabled, the worker started
on_download(input) ==
    /\ btn_download = "normal"
    /\ clicks < MaxClicks
    /\ \E w \in Threads : Free(w)
    /\ clicks' = clicks + 1
    /\ \E s \in {Strip(input)} :
           IF s = ""
           THEN /\ queue' = Append(queue, StatusEntry("please paste something first."))
                /\ UNCHANGED <<thr, btn_download>>
           ELSE /\ queue' = queue \o <<ProgressEntry(0), StatusEntry("resolving link"),
                                        LogEntry("starting")>>
                /\ btn_download' = ButtonWhileWorking
                /\ thr' = [thr EXCEPT ![FreeSlot] =
                               [IdleThread EXCEPT !.pc = "resolve", !.app = TRUE,
                                                  !.user_input = s]]
    /\ UNCHANGED <<status_var, progress_var, log_text>>

\* the foreground runs the next after(0, ...) callback: lines 273-284 and 363
RunCallback ==
    /\ queue # <<>>
    /\ queue' = Tail(queue)
    /\ log_text' = IF Head(queue).cb = "log" THEN Append(log_text, Head(queue).arg) ELSE log_text
    /\ status_var' = IF Head(queue).cb = "status" THEN Head(queue).arg ELSE status_var
    /\ progress_var' = IF Head(queue).cb = "progress" THEN Head(queue).arg ELSE progress_var
    /\ btn_download' = IF Head(queue).cb = "enable" THEN Head(queue).arg ELSE btn_download
    /\ UNCHANGED <<thr, clicks>>

\* lines 332-339: webbrowser.open(fig_url), or the log line when it raises
OpenWithModel(t, browser_ok) ==
    IF browser_ok
    THEN [t |-> [t EXCEPT !.opened = Append(@, "modelUrl")],
          posts |-> <<LogEntry("opening figurinify with detected model url")>>]
    ELSE [t |-> t,
          posts |-> <<LogEntry("opening figurinify with detected model url"),
                      LogEntry("could not open figurinify with modelUrl")>>]

\* lines 329-349: from the return of resolve_to_glb_url to the call of download_file
OnResolved(r) ==
    [t |-> [r.t EXCEPT !.pc = "download"],
     posts |-> <<LogEntry("found glb url")>> \o r.posts \o <<LogEntry("downloading to")>>]

WorkerResolved(w, browser_ok) ==
    /\ thr[w].app
    /\ thr[w].pc = "returned"
    /\ Step(w, OnResolved(OpenWithModel(thr[w], browser_ok)))
    /\ UNCHANGED <<btn_download, status_var, progress_var, log_text, clicks>>

\* a variant of lines 357-365 that reports nothing
ExceptWithoutStatus(t) == [t |-> [t EXCEPT !.pc = "finished"], posts |-> <<EnableEntry>>]

\* lines 357-365: except Exception, then finally
ExceptFinally(t) ==
    [t |-> [t EXCEPT !.pc = "finished", !.last_status = StatusFailed],
     posts |-> <<StatusEntry(StatusFailed), LogEntry("error"), EnableEntry>>]

\* resolve_to_glb_url or download_file raised
WorkerExcept(w) ==
    /\ thr[w].app
    /\ thr[w].pc = "raised"
    /\ Step(w, ExceptFinally(thr[w]))
    /\ UNCHANGED <<btn_download, status_var, progress_var, log_text, clicks>>

\* lines 351-365 after download_file returned; webbrowser.open(FIGURINIFY_URL)
\* is not in a try of its own
OnSaved(t, browser_ok) ==
    IF browser_ok
    THEN [t |-> [t EXCEPT !.pc = "finished", !.opened = Append(@, FIGURINIFY_URL),
                          !.last_status = "figurinify opened"],
          posts |-> <<StatusEntry("download complete"), LogEntry("next step"),
                      LogEntry("in figurinify"), StatusEntry("figurinify opened"),
                      EnableEntry>>]
    ELSE [t |-> [t EXCEPT !.pc = "finished", !.err = "browser error",
                          !.last_status = StatusFailed],
          posts |-> <<StatusEntry("download complete"), LogEntry("next step"),
                      StatusEntry(StatusFailed), LogEntry("error"), EnableEntry>>]

WorkerComplete(w, browser_ok) ==
    /\ thr[w].app
    /\ thr[w].pc = "saved"
    /\ Step(w, OnSaved(thr[w], browser_ok))
    /\ UNCHANGED <<btn_download, status_var, progress_var, log_text, clicks>>

(***************************************************************************)
(* The inputs and the pages of the model                                   *)
(***************************************************************************)

ModelId == "v2-019a7474-3f2a-7a7d-9282-cc5599095a44"

ResolveInputs ==
    {"https://cdn.x/a/m.glb",
     "  HTTPS://CDN.x/a/M.GLB?token=1  ",
     "http://h.x/m.bin#v.glb",
     "http://h.x/a;v.glb",
     "http://h.glb",
     "https://h.x/d/p",
     "http://h.x/p?f=m.glb",
     "https://www.meshy.ai/3d-models/" \o ModelId,
     ModelId,
     "share V2-019A7474-3F2A-7A7D-9282-CC5599095A44 now",
     "ftp://h.x/m.glb",
     "h.x/m.glb",
     "hello",
     "   "}

Pages ==
    {"<p>no model here</p>",
     "see https://cdn.x/a/m.glb?t=1&amp;k=2 here",
     "{\"url\":\"https:\\/\\/a.b\\/x.glb\"}",
     "<a href=\"/assets/m.glb\">",
     "<a href=\"assets/m.glb\">",
     "<a href='m.glb'>",
     "<a href='../m.glb?v=2'>",
     "x http:///m.glb y",
     "https://&#47;m.glb",
     "<img src=\"https://h.x/m.bin#v.glb\">",
     "https://[x/m.glb"}

\* what a fetch of page_url can yield: a failure, or a page of a final URL (r.url)
\* that is page_url or, after a redirect, another
Responses(page_url) ==
    {FetchFailed} \cup {[ok |-> TRUE, url |-> f, text |-> h] :
                           f \in {page_url, "https://cdn.x/d/e/p.html"}, h \in Pages}

\* the page the fetch in flight of thread w asked for
PendingUrl(w) ==
    IF Len(thr[w].fetches) = 0 THEN "" ELSE thr[w].fetches[Len(thr[w].fetches)].url

(***************************************************************************)
(* resolve_to_glb_url called on its own, with a log that collects lines    *)
(***************************************************************************)

InitResolve ==
    /\ thr = [w \in Threads |-> IF w = 1 THEN [IdleThread EXCEPT !.pc = "resolve"] ELSE IdleThread]
    /\ queue = <<>>
    /\ btn_download = "normal"
    /\ status_var = "ready"
    /\ progress_var = 0
    /\ log_text = <<>>
    /\ clicks = 0

NextResolve ==
    \/ \E s \in ResolveInputs : Resolve(1, s)
    \/ \E resp \in Responses(PendingUrl(1)) : FetchDone(1, resp)

SpecResolve == InitResolve /\ [][NextResolve]_vars

(***************************************************************************)
(* download_file called on its own, progress_cb recording its argument     *)
(***************************************************************************)

\* content-length headers of the responses: none, less than the body, the spec's example
Totals == {0, ChunkSize, 10000000}

DownloadResponses == {[ok |-> FALSE, total |-> 0]} \cup {[ok |-> TRUE, total |-> n] : n \in Totals}

\* len(chunk): iter_content yields at most chunk_size bytes at a time
ChunkSizes == {0, ChunkSize}

InitDownload ==
    /\ thr = [w \in Threads |->
                IF w = 1
                THEN [IdleThread EXCEPT !.pc = "download",
                                        !.resolved = [glb_url |-> "https://cdn.x/a/m.glb",
                                                      filename |-> "m.glb"]]
                ELSE IdleThread]
    /\ queue = <<>>
    /\ btn_download = "normal"
    /\ status_var = "ready"
    /\ progress_var = 0
    /\ log_text = <<>>
    /\ clicks = 0

NextDownload ==
    \/ DownloadCall(1)
    \/ \E resp \in DownloadResponses : DownloadResponse(1, resp)
    \/ \E size \in ChunkSizes : Chunk(1, size)
    \/ StreamError(1)
    \/ StreamEnd(1)

SpecDownload == InitDownload /\ [][NextDownload]_vars

(***************************************************************************)
(* The application                                                         *)
(***************************************************************************)

\* what the user pastes before a click
AppInputs == {"  ", "https://cdn.x/a/m.glb", "https://h.x/d/p"}

\* what a fetch of page_url yields in the application
AppResponses(page_url) ==
    {FetchFailed,
     [ok |-> TRUE, url |-> page_url, text |-> "<p>no model here</p>"],
     [ok |-> TRUE, url |-> page_url, text |-> "<a href=\"/assets/m.glb\">"]}

AppDownloads == {[ok |-> FALSE, total |-> 0], [ok |-> TRUE, total |-> 3 * ChunkSize]}

Init ==
    /\ thr = [w \in Threads |-> IdleThread]
    /\ queue = <<>>
    /\ btn_download = "normal"
    /\ status_var = "ready"
    /\ progress_var = 0
    /\ log_text = <<>>
    /\ clicks = 0

Next ==
    \/ \E input \in AppInputs : on_download(input)
    \/ RunCallback
    \/ \E w \in Threads : thr[w].app /\ Resolve(w, thr[w].user_input)
    \/ \E w \in Threads : \E resp \in AppResponses(PendingUrl(w)) : thr[w].app /\ FetchDone(w, resp)
    \/ \E w \in Threads : \E browser_ok \in BOOLEAN : WorkerResolved(w, browser_ok)
    \/ \E w \in Threads : thr[w].app /\ DownloadCall(w)
    \/ \E w \in Threads : \E resp \in AppDownloads : thr[w].app /\ DownloadResponse(w, resp)
    \/ \E w \in Threads : \E size \in ChunkSizes : thr[w].app /\ Chunk(w, size)
    \/ \E w \in Threads : thr[w].app /\ StreamError(w)
    \/ \E w \in Threads : thr[w].app /\ StreamEnd(w)
    \/ \E w \in Threads : \E browser_ok \in BOOLEAN : WorkerComplete(w, browser_ok)
    \/ \E w \in Threads : WorkerExcept(w)

Spec == Init /\ [][Next]_vars

(***************************************************************************)
(* Properties.  The resolver properties are stated on SpecResolve, the     *)
(* download properties on SpecDownload, the worker properties on Spec.     *)
(***************************************************************************)

\* the threads that are running
Active == {w \in Threads : ~Free(w)}

\* the index after "http://" or "https://" at the start of the lower-cased text l,
\* 0 when it starts with neither
HostStart(l) ==
    IF StartsWith(l, "https://") THEN 9 ELSE IF StartsWith(l, "http://") THEN 8 ELSE 0

\* the text is an absolute http/https URL that ends in .glb before any "?"
DirectLinkText(x) ==
    \E l \in {Lower(x)} :
        /\ HostStart(l) > 0
        /\ Ch(l, HostStart(l)) \notin {"", "/", "?", "#", "["}
        /\ EndsWith(UpTo(l, Find(l, "?", 1)), ".glb")

\* C1: when the trimmed input is an absolute http/https URL ending in .glb (a query
\* string ignored), the call returns the trimmed input as glb_url, has fetched
\* nothing and has logged nothing.
C1_DirectLinkReturnedWithoutFetch ==
    \A w \in Threads :
        (thr[w].pc \notin {"idle", "resolve"} /\ DirectLinkText(Strip(thr[w].user_input)))
        => /\ thr[w].pc = "returned"
           /\ thr[w].resolved.glb_url = Strip(thr[w].user_input)
           /\ thr[w].fetches = <<>>
           /\ queue = <<>>

\* a direct link with spaces around it, capitals and a query string was returned
C1_Witness ==
    \E w \in Threads :
        /\ thr[w].pc = "returned"
        /\ thr[w].user_input = "  HTTPS://CDN.x/a/M.GLB?token=1  "
        /\ thr[w].resolved.glb_url = "HTTPS://CDN.x/a/M.GLB?token=1"
        /\ thr[w].fetches = <<>>

\* an enable callback is waiting in the after-queue
EnablePending == \E i \in 1..Len(queue) : queue[i] = EnableEntry

\* C2: at most one worker runs at a time; while one runs the download button is
\* disabled; once it has finished, on either path, the button is enabled again or
\* the callback that enables it is queued.
C2_OneWorkerWhileButtonDisabled ==
    /\ Cardinality(Active) <= 1
    /\ Active # {} => btn_download = "disabled"
    /\ (Active = {} /\ \E w \in Threads : thr[w].pc = "finished")
       => (btn_download = "normal" \/ EnablePending)

\* the worker of a second job is downloading, the button disabled
C2_Witness ==
    /\ Len(SelectSeq(log_text, LAMBDA line : line = "starting")) = 2
    /\ btn_download = "disabled"
    /\ \E w \in Threads : thr[w].pc = "streaming" /\ thr[w].got > 0

\* C3: a page fetch that failed is the last fetch of the call, and the call ended
\* with that fetch's error and no result; every fetch followed by another one
\* succeeded and found no link.
C3_FailedFetchEndsResolution ==
    \A w \in Threads : \A i \in 1..Len(thr[w].fetches) :
        /\ thr[w].fetches[i].outcome = "failed"
           => /\ i = Len(thr[w].fetches)
              /\ thr[w].pc = "raised"
              /\ thr[w].err = "fetch error"
              /\ thr[w].resolved = NoResult
        /\ i < Len(thr[w].fetches) => thr[w].fetches[i].outcome = "nolink"

\* the fetch of a pasted URL that holds a model id failed: strategy 3 was not tried
C3_Witness ==
    \E w \in Threads :
        /\ thr[w].s = ModelPage(ModelId)
        /\ Len(thr[w].fetches) = 1
        /\ thr[w].fetches[1].outcome = "failed"
        /\ thr[w].pc = "raised"

\* C4: with a declared positive content length, every value passed to progress_cb
\* is in 0..100, the values never decrease, a value reported in the loop is
\* floor(got * 100 / total), and the value reported last is 100.
C4_DeclaredLengthProgress ==
    \A w \in Threads :
        (thr[w].pc \in {"streaming", "saved"} /\ thr[w].total > 0 /\ thr[w].cb_count > 0)
        => /\ thr[w].cb_last \in 0..100
           /\ thr[w].cb_count > 1 => thr[w].cb_prev <= thr[w].cb_last
           /\ thr[w].cb_in_stream => thr[w].cb_last = Pct(thr[w].got, thr[w].total)
           /\ thr[w].pc = "saved" => thr[w].cb_last = 100

\* C5, in one state: without a declared content length a value reported in the loop
\* is in 0..99, and 100 is the last value exactly when the stream has ended
\* without error.
UnknownLengthValues ==
    \A w \in Threads :
        (thr[w].pc \in {"streaming", "saved", "raised"} /\ thr[w].total = 0)
        => /\ (thr[w].cb_count > 0 /\ thr[w].cb_in_stream) => thr[w].cb_last \in 0..99
           /\ thr[w].pc = "saved" => (thr[w].cb_last = 100 /\ ~thr[w].cb_in_stream)
           /\ thr[w].pc # "saved" => thr[w].cb_last # 100

\* C5, in one step: an empty chunk reports nothing and leaves the byte counter
EmptyChunkSkipped ==
    \A w \in Threads :
        (thr[w].pc = "streaming" /\ thr'[w].pc = "streaming"
         /\ thr'[w].nchunks = thr[w].nchunks + 1 /\ thr'[w].chunk = 0)
        => (thr'[w].got = thr[w].got /\ thr'[w].cb_count = thr[w].cb_count)

\* C5: for a response with no content length (or one of 0), the values reported
\* while chunks arrive are in 0..99, an empty chunk reports nothing and does not
\* change the byte counter, and 100 is reported last, only after the stream ended
\* without error.
C5_UnknownLengthProgress == []UnknownLengthValues /\ [][EmptyChunkSkipped]_vars

\* 100 MiB have arrived and the value reported for them is 0 again; an empty chunk
\* came last
C5_Witness ==
    \E w \in Threads :
        /\ thr[w].pc = "streaming"
        /\ thr[w].total = 0
        /\ thr[w].got = 100 * MB
        /\ thr[w].cb_last = 0
        /\ thr[w].chunk = 0

\* the errors resolve_to_glb_url and download_file raise
CallErrors == {"fetch error", "not found", "invalid url", "download error"}

\* C6: a worker whose resolution or download raised has set the failed status last
\* and logged an error line; it sent no download request after a failed resolution,
\* did not open the viewer's base URL, sent no request twice, and the button is
\* enabled again or about to be.
C6_ErrorEndsTheJob ==
    \A w \in Threads :
        (thr[w].app /\ thr[w].pc = "finished" /\ thr[w].err \in CallErrors)
        => /\ thr[w].last_status = StatusFailed
           /\ \/ \E i \in 1..Len(queue) : queue[i] = LogEntry("error")
              \/ \E i \in 1..Len(log_text) : log_text[i] = "error"
           /\ thr[w].resolved = NoResult => (thr[w].gets = 0 /\ thr[w].opened = <<>>)
           /\ \A i \in 1..Len(thr[w].opened) : thr[w].opened[i] # FIGURINIFY_URL
           /\ thr[w].gets <= 1
           /\ \A i \in 1..Len(thr[w].fetches) :
                  thr[w].fetches[i].outcome = "failed" => i = Len(thr[w].fetches)
           /\ btn_download = "normal" \/ EnablePending

\* a download broke off, the failed status is shown and the button is enabled again
C6_Witness ==
    \E w \in Threads :
        /\ thr[w].app /\ thr[w].pc = "finished"
        /\ thr[w].err = "download error"
        /\ thr[w].got > 0
        /\ queue = <<>>
        /\ status_var = StatusFailed
        /\ btn_download = "normal"

\* C7 as stated: a pasted URL that is no direct link and whose page has no .glb
\* link fails with the not-found error after exactly one fetch, model id or not.
C7_UrlInputNeverDerivesPage ==
    \A w \in Threads :
        (/\ Len(thr[w].fetches) >= 1
         /\ _is_url(thr[w].s)
         /\ thr[w].fetches[1].outcome = "nolink")
        => /\ Len(thr[w].fetches) = 1
           /\ thr[w].pc = "raised"
           /\ thr[w].err = "not found"

\* C7: a pasted URL that is no direct link and whose page has no .glb link fails
\* with the not-found error after exactly one fetch when its text holds no v2-
\* model id; when it holds one, a second fetch asks for the model page of that id.
C7_UrlInputDerivesPageFromId ==
    \A w \in Threads :
        (/\ Len(thr[w].fetches) >= 1
         /\ _is_url(thr[w].s)
         /\ thr[w].fetches[1].outcome = "nolink")
        => IF _extract_model_id(thr[w].s) = ""
           THEN /\ Len(thr[w].fetches) = 1
                /\ thr[w].pc = "raised"
                /\ thr[w].err = "not found"
           ELSE /\ Len(thr[w].fetches) = 2
                /\ thr[w].fetches[1].url = thr[w].s
                /\ thr[w].fetches[2].url =
                       "https://www.meshy.ai/3d-models/" \o _extract_model_id(thr[w].s)

\* the page of a pasted URL with a model id had no link, and the model page of the
\* id, fetched next, had one
C7_Witness ==
    \E w \in Threads :
        /\ _is_url(thr[w].s)
        /\ Len(thr[w].fetches) = 2
        /\ thr[w].fetches[1].outcome = "nolink"
        /\ thr[w].fetches[2].outcome = "found"
        /\ thr[w].pc = "returned"

\* the last path segment of a URL
LastSegment(url) == Only({basename(u.path) : u \in {urlparse(url, "")}})

\* C8 as stated: the filename of a result is not empty and ends in .glb.
C8_FilenameEndsInGlb ==
    \A w \in Threads :
        thr[w].pc = "returned"
        => /\ thr[w].resolved.filename # ""
           /\ EndsWith(Lower(thr[w].resolved.filename), ".glb")

\* what C8 (amended) expects for the last path segment seg
FilenameFor(seg) ==
    IF seg = "" THEN "model.glb"
    ELSE IF EndsWith(Lower(seg), ".glb") \/ Contains(seg, ".") THEN seg
    ELSE seg \o ".glb"

\* C8: the filename of a result is not empty: it is the last path segment of the
\* file URL when that segment ends in .glb or contains a dot, the segment with
\* .glb appended when it has no dot, and model.glb when the path has no last
\* segment.
C8_FilenameFromLastSegment ==
    \A w \in Threads :
        thr[w].pc = "returned"
        => /\ thr[w].resolved.filename # ""
           /\ thr[w].resolved.filename = FilenameFor(LastSegment(thr[w].resolved.glb_url))

\* a result whose last path segment has another extension, which is kept
C8_Witness ==
    \E w \in Threads :
        /\ thr[w].pc = "returned"
        /\ thr[w].resolved.glb_url = "http://h.x/m.bin#v.glb"
        /\ thr[w].resolved.filename = "m.bin"

\* C9: the glb_url of a result is an absolute URL: its scheme is http or https and
\* its host is not empty.
C9_ResultIsAbsoluteUrl ==
    \A w \in Threads :
        thr[w].pc = "returned"
        => \E u \in {urlparse(thr[w].resolved.glb_url, "")} :
               u.scheme \in {"http", "https"} /\ u.netloc # ""

\* the page the last fetch of thread w got
LastFetch(w) == thr[w].fetches[Len(thr[w].fetches)]

\* C10: when the page holds no absolute .glb URL, the .glb reference of an href or
\* src attribute is returned resolved against the final URL of the page by the
\* standard resolution of relative references, root-relative or page-relative.
C10_AttributeResolvedAgainstPage ==
    \A w \in Threads :
        (/\ thr[w].pc = "returned"
         /\ Len(thr[w].fetches) >= 1
         /\ FindAbsolute(LastFetch(w).html) = ""
         /\ FindAttribute(LastFetch(w).html) # "")
        => thr[w].resolved.glb_url =
               urljoin(LastFetch(w).final, FindAttribute(LastFetch(w).html))

====
